---- MODULE Spec2Model ----
(***************************************************************************)
(* TicTacToeEnv (src/environments/TicTacToeEnv.py): a 3x3 Tic-Tac-Toe      *)
(* environment with a step/reset interface and an embedded random          *)
(* opponent.  Arrays are objects on a heap, so that a returned board       *)
(* (self.board.copy()) and the internal board (self.board) are distinct    *)
(* objects or aliases according to what the code does.                     *)
(***************************************************************************)
EXTENDS Integers, Sequences, FiniteSets, TLC

VARIABLES heap, boardRef, current_player, done, ret, held, op, act, pre,
          ncalls

vars == <<heap, boardRef, current_player, done, ret, held, op, act, pre,
          ncalls>>

(* ------------------------------ bounds --------------------------------- *)

\* how far beyond the documented action range 0..8 (and beyond the range
\* -9..-1 that numpy's negative indexing accepts) the tried actions go
OutOfRange == 1

\* calls made in the snapshot-holding specification
MaxCalls == 2

\* step calls that return, counted since the last reset, in the
\* episode-length specification
MaxSteps == 6

(* ------------------------------ values --------------------------------- *)

Cells == (0..2) \X (0..2)

Actions == (0 - 9 - OutOfRange)..(8 + OutOfRange)

Refs == {1, 2, 3}

NoRef == 0

\* np.zeros((3, 3), dtype=np.int8)
Zeros == [c \in Cells |-> 0]

\* row, col = divmod(action, 3): floor division, remainder in 0..2
Decode(action) == <<action \div 3, action % 3>>

\* numpy accepts an index i of an axis of length 3 when -3 <= i <= 2
InBounds(i) == (0 - 3) <= i /\ i <= 2

\* a negative index counts from the end of the axis
Index(i) == IF i < 0 THEN i + 3 ELSE i

Target(action) == <<Index(Decode(action)[1]), Index(Decode(action)[2])>>

FullAny(b) == \E c \in Cells : b[c] # 0

FullTestsEmpty(b) == \A c \in Cells : b[c] = 0

\* (self.board != 0).all()
Full(b) == \A c \in Cells : b[c] # 0

IsWinRowsOnly(b, player) ==
    \E i \in 0..2 : \A j \in 0..2 : b[<<i, j>>] = player

IsWinNoAntiDiag(b, player) ==
    \/ \E i \in 0..2 : \A j \in 0..2 : b[<<i, j>>] = player
    \/ \E j \in 0..2 : \A i \in 0..2 : b[<<i, j>>] = player
    \/ \A i \in 0..2 : b[<<i, i>>] = player

IsWinNoColumns(b, player) ==
    \/ \E i \in 0..2 : \A j \in 0..2 : b[<<i, j>>] = player
    \/ \A i \in 0..2 : b[<<i, i>>] = player
    \/ \A i \in 0..2 : b[<<i, 2 - i>>] = player

\* _is_win(player) on the array b
IsWin(b, player) ==
    \/ \E i \in 0..2 : \A j \in 0..2 : b[<<i, j>>] = player
    \/ \E j \in 0..2 : \A i \in 0..2 : b[<<i, j>>] = player
    \/ \A i \in 0..2 : b[<<i, i>>] = player
    \/ \A i \in 0..2 : b[<<i, 2 - i>>] = player

\* the 9 cells in row-major order, the order in which np.argwhere lists them
RowMajorCells == [k \in 1..9 |-> <<(k - 1) \div 3, (k - 1) % 3>>]

\* the cells of S as a sequence in row-major order
RowMajor(S) == SelectSeq(RowMajorCells, LAMBDA c : c \in S)

ArgWhereNotOpponent(b) == RowMajor({c \in Cells : b[c] # 2})

ArgWhereOccupied(b) == RowMajor({c \in Cells : b[c] # 0})

\* empty = np.argwhere(self.board == 0)
ArgWhereEmpty(b) == RowMajor({c \in Cells : b[c] = 0})

ProbeIgnoresOccupied(b, d, action) ==
    IF d THEN "illegal"
    ELSE IF ~(InBounds(Decode(action)[1]) /\ InBounds(Decode(action)[2]))
         THEN "IndexError"
         ELSE "legal"

ProbeIgnoresDone(b, d, action) ==
    IF ~(InBounds(Decode(action)[1]) /\ InBounds(Decode(action)[2]))
    THEN "IndexError"
    ELSE IF b[Target(action)] # 0 THEN "illegal" ELSE "legal"

ProbeAnd(b, d, action) ==
    IF ~d THEN "legal"
    ELSE IF ~(InBounds(Decode(action)[1]) /\ InBounds(Decode(action)[2]))
         THEN "IndexError"
         ELSE IF b[Target(action)] # 0 THEN "illegal" ELSE "legal"

\* if self.done or self.board[row, col] != 0: `or` evaluates the subscript
\* only when self.done is false, and the subscript raises IndexError when
\* the row is outside the array
Probe(b, d, action) ==
    IF d THEN "illegal"
    ELSE IF ~(InBounds(Decode(action)[1]) /\ InBounds(Decode(action)[2]))
         THEN "IndexError"
         ELSE IF b[Target(action)] # 0 THEN "illegal" ELSE "legal"

OtherKeepsTurn(p) == p

\* 2 if self.current_player == 1 else 1
Other(p) == IF p = 1 THEN 2 ELSE 1

(* ------------------------------- heap ---------------------------------- *)

\* the array self.board refers to
Board == heap[boardRef]

\* a reference no live variable holds
Alloc(live) == CHOOSE r \in Refs \ live : \A q \in Refs \ live : r <= q

\* objects nothing refers to are reclaimed
Collect(h, live) == [r \in Refs |-> IF r \in live THEN h[r] ELSE Zeros]

BoardAlias(src, fresh) == src

\* self.board.copy(): the value returned is the new array, not self.board
BoardCopy(src, fresh) == fresh

InfoWithoutFlag == {}

InvalidInfo == {<<"invalid_move", TRUE>>}

EmptyInfo == {}

\* the environment as the call under way found it
PreState ==
    [board |-> Board, done |-> done, current_player |-> current_player, op |-> op]

(* ------------------------------ reset ---------------------------------- *)

ResetKeepsPlayer(self) == [self EXCEPT !.done = FALSE]

\* self.current_player = 1; self.done = False
ResetFields(self) == [self EXCEPT !.current_player = 1, !.done = FALSE]

\* reset(): a new zero array replaces self.board; returns (copy, {})
ResetOp ==
    LET nb    == Alloc({held})
        fresh == Alloc({held, nb})
        h1    == [heap EXCEPT ![nb] = Zeros]
        h2    == [h1 EXCEPT ![fresh] = h1[nb]]
        rref  == BoardCopy(nb, fresh)
        self  == ResetFields([current_player |-> current_player, done |-> done])
    IN  /\ boardRef' = nb
        /\ heap' = Collect(h2, {nb, held, rref})
        /\ current_player' = self.current_player
        /\ done' = self.done
        /\ ret' = [board |-> rref, reward |-> 0, terminal |-> FALSE,
                   truncated |-> FALSE, info |-> EmptyInfo,
                   raised |-> "none", line |-> 28]
        /\ op' = "reset"
        /\ act' = 0
        /\ pre' = PreState

(* ------------------------------- step ---------------------------------- *)

\* return self.board.copy(), reward, self.done, False, info
\* with self.board holding b, self.current_player = cp and self.done = d
Return(b, cp, d, reward, info, line) ==
    LET fresh == Alloc({boardRef, held})
        h1    == [heap EXCEPT ![boardRef] = b]
        h2    == [h1 EXCEPT ![fresh] = h1[boardRef]]
        rref  == BoardCopy(boardRef, fresh)
    IN  /\ heap' = Collect(h2, {boardRef, held, rref})
        /\ boardRef' = boardRef
        /\ current_player' = cp
        /\ done' = d
        /\ ret' = [board |-> rref, reward |-> reward, terminal |-> d,
                   truncated |-> FALSE, info |-> info,
                   raised |-> "none", line |-> line]

\* the subscript in the condition of line 36 raises: nothing was assigned
Raise(error) ==
    /\ heap' = Collect(heap, {boardRef, held})
    /\ UNCHANGED <<boardRef, current_player, done>>
    /\ ret' = [board |-> NoRef, reward |-> 0, terminal |-> FALSE,
               truncated |-> FALSE, info |-> EmptyInfo,
               raised |-> error, line |-> 36]

OpponentReplyKeepsTurn(b1, cp1) ==
    IF cp1 = 2
    THEN LET empty == ArgWhereEmpty(b1) IN
         IF Len(empty) > 0
         THEN \E idx \in 1..Len(empty) :
                 LET b2 == [b1 EXCEPT ![empty[idx]] = 2] IN
                 IF IsWin(b2, 2)
                 THEN Return(b2, cp1, TRUE, 0 - 1, EmptyInfo, 68)
                 ELSE IF Full(b2)
                      THEN Return(b2, cp1, TRUE, 0, EmptyInfo, 72)
                      ELSE Return(b2, cp1, done, 0, EmptyInfo, 76)
         ELSE Return(b1, cp1, done, 0, EmptyInfo, 76)
    ELSE Return(b1, cp1, done, 0, EmptyInfo, 76)

\* lines 58-76, entered with the agent's mark placed and the turn switched
OpponentReply(b1, cp1) ==
    IF cp1 = 2
    THEN LET empty == ArgWhereEmpty(b1) IN
         IF Len(empty) > 0
         THEN \E idx \in 1..Len(empty) :
                 LET b2 == [b1 EXCEPT ![empty[idx]] = 2] IN
                 IF IsWin(b2, 2)
                 THEN Return(b2, cp1, TRUE, 0 - 1, EmptyInfo, 68)
                 ELSE IF Full(b2)
                      THEN Return(b2, cp1, TRUE, 0, EmptyInfo, 72)
                      ELSE Return(b2, 1, done, 0, EmptyInfo, 76)
         ELSE Return(b1, 1, done, 0, EmptyInfo, 76)
    ELSE Return(b1, cp1, done, 0, EmptyInfo, 76)

StepOpNoDrawCheck(action) ==
    /\ op' = "step"
    /\ act' = action
    /\ pre' = PreState
    /\ LET probe == Probe(Board, done, action) IN
       IF probe = "IndexError"
       THEN Raise(probe)
       ELSE IF probe = "illegal"
            THEN Return(Board, current_player, TRUE, 0 - 1, InvalidInfo, 40)
            ELSE LET b1 == [Board EXCEPT ![Target(action)] = current_player] IN
                 IF IsWin(b1, current_player)
                 THEN Return(b1, current_player, TRUE, 1, EmptyInfo, 49)
                 ELSE OpponentReply(b1, Other(current_player))

StepOpDrawFirst(action) ==
    /\ op' = "step"
    /\ act' = action
    /\ pre' = PreState
    /\ LET probe == Probe(Board, done, action) IN
       IF probe = "IndexError"
       THEN Raise(probe)
       ELSE IF probe = "illegal"
            THEN Return(Board, current_player, TRUE, 0 - 1, InvalidInfo, 40)
            ELSE LET b1 == [Board EXCEPT ![Target(action)] = current_player] IN
                 IF Full(b1)
                 THEN Return(b1, current_player, TRUE, 0, EmptyInfo, 53)
                 ELSE IF IsWin(b1, current_player)
                      THEN Return(b1, current_player, TRUE, 1, EmptyInfo, 49)
                      ELSE OpponentReply(b1, Other(current_player))

\* step(action)
StepOp(action) ==
    /\ op' = "step"
    /\ act' = action
    /\ pre' = PreState
    /\ LET probe == Probe(Board, done, action) IN
       IF probe = "IndexError"
       THEN Raise(probe)
       ELSE IF probe = "illegal"
            THEN Return(Board, current_player, TRUE, 0 - 1, InvalidInfo, 40)
            ELSE LET b1 == [Board EXCEPT ![Target(action)] = current_player] IN
                 IF IsWin(b1, current_player)
                 THEN Return(b1, current_player, TRUE, 1, EmptyInfo, 49)
                 ELSE IF Full(b1)
                      THEN Return(b1, current_player, TRUE, 0, EmptyInfo, 53)
                      ELSE OpponentReply(b1, Other(current_player))

(* --------------------------- specifications ---------------------------- *)

\* __init__ calls reset() and discards what it returns
Init ==
    /\ boardRef = 1
    /\ heap = [r \in Refs |-> Zeros]
    /\ current_player = 1
    /\ done = FALSE
    /\ ret = [board |-> NoRef, reward |-> 0, terminal |-> FALSE,
              truncated |-> FALSE, info |-> EmptyInfo,
              raised |-> "none", line |-> 21]
    /\ held = NoRef
    /\ op = "init"
    /\ act = 0
    /\ pre = [board |-> Zeros, done |-> FALSE, current_player |-> 1, op |-> "init"]
    /\ ncalls = 0

Step(action) == StepOp(action) /\ UNCHANGED <<held, ncalls>>

Reset == ResetOp /\ UNCHANGED <<held, ncalls>>

Next == (\E action \in Actions : Step(action)) \/ Reset

Spec == Init /\ [][Next]_vars

(* A caller that keeps a returned board and may write into it. *)

SnapStep(action) ==
    /\ ncalls < MaxCalls
    /\ StepOp(action)
    /\ ncalls' = ncalls + 1
    /\ UNCHANGED held

SnapReset ==
    /\ ncalls < MaxCalls
    /\ ResetOp
    /\ ncalls' = ncalls + 1
    /\ UNCHANGED held

\* the caller keeps the board of the tuple the last call returned
Keep ==
    /\ ret.board # NoRef
    /\ held # ret.board
    /\ held' = ret.board
    /\ heap' = Collect(heap, {boardRef, ret.board})
    /\ UNCHANGED <<boardRef, current_player, done, ret, op, act, pre, ncalls>>

\* the caller overwrites the board it keeps in place: held.fill(v)
MutateHeld(v) ==
    /\ held # NoRef
    /\ heap[held] # [c \in Cells |-> v]
    /\ heap' = [heap EXCEPT ![held] = [c \in Cells |-> v]]
    /\ UNCHANGED <<boardRef, current_player, done, ret, held, op, act, pre, ncalls>>

SnapNext ==
    \/ \E action \in Actions : SnapStep(action)
    \/ SnapReset
    \/ Keep
    \/ \E v \in 0..2 : MutateHeld(v)

SnapSpec == Init /\ [][SnapNext]_vars

(* Episodes with their step calls counted: ncalls is the number of step    *)
(* calls that returned since the last reset.                               *)

CountedStep(action) ==
    /\ ncalls < MaxSteps
    /\ StepOp(action)
    /\ ncalls' = IF ret'.raised = "none" THEN ncalls + 1 ELSE ncalls
    /\ UNCHANGED held

CountedReset ==
    /\ ResetOp
    /\ ncalls' = 0
    /\ UNCHANGED held

EpisodeNext == (\E action \in Actions : CountedStep(action)) \/ CountedReset

EpisodeSpec == Init /\ [][EpisodeNext]_vars

(* ------------------------------ properties ----------------------------- *)

\* the 3 rows, 3 columns and 2 diagonals
Lines ==
    {{<<i, j>> : j \in 0..2} : i \in 0..2}
        \cup {{<<i, j>> : i \in 0..2} : j \in 0..2}
        \cup {{<<i, i>> : i \in 0..2}, {<<i, 2 - i>> : i \in 0..2}}

ThreeInRow(b, p) == \E L \in Lines : \A c \in L : b[c] = p

Count(b, v) == Cardinality({c \in Cells : b[c] = v})

\* the cell a documented action 0..8 names
CellOf(a) == <<a \div 3, a % 3>>

\* the cell the subscript of step addresses, for the actions it accepts
Addressed(a) == IF a < 0 THEN CellOf(a + 9) ELSE CellOf(a)

\* the board of the tuple the last call returned
Returned == heap[ret.board]

\* the last call was a step that returned the illegal-move tuple
IllegalReturn ==
    /\ ret.raised = "none"
    /\ ret.terminal = TRUE
    /\ ret.reward = 0 - 1
    /\ <<"invalid_move", TRUE>> \in ret.info
    /\ Board = pre.board
    /\ Returned = pre.board

\* the last call was a step on a running episode aimed at an empty cell
LegalCall ==
    /\ op = "step"
    /\ ~pre.done
    /\ act \in (0 - 9)..8
    /\ pre.board[Addressed(act)] = 0

C3_StepNeverRaises ==
    op = "step" =>
        /\ ret.raised = "none"
        /\ (act \notin 0..8 => IllegalReturn)

\* C4: a legal step that completes any of the 8 lines for PlayerA returns
\* terminal and reward +1, and changes only the action cell
C4_AgentLineWins ==
    \A L \in Lines :
        (/\ LegalCall
         /\ Addressed(act) \in L
         /\ \A c \in L \ {Addressed(act)} : pre.board[c] = 1)
        => /\ ret.raised = "none"
           /\ ret.terminal = TRUE
           /\ done = TRUE
           /\ ret.reward = 1
           /\ Board = [pre.board EXCEPT ![Addressed(act)] = 1]
           /\ Returned = Board

C4_Witness ==
    /\ LegalCall
    /\ act \in 0..8
    /\ Addressed(act) \in {<<i, 2 - i>> : i \in 0..2}
    /\ \A i \in 0..2 : Board[<<i, 2 - i>>] = 1
    /\ ret.reward = 1
    /\ ret.line = 49

\* C5: a legal step that fills the last cell with neither player having three
\* in a row returns terminal and reward 0 without invalid_move
C5_FullBoardIsDraw ==
    (/\ LegalCall
     /\ Count(Board, 0) = 0
     /\ ~ThreeInRow(Board, 1)
     /\ ~ThreeInRow(Board, 2))
    => /\ ret.raised = "none"
       /\ ret.terminal = TRUE
       /\ done = TRUE
       /\ ret.reward = 0
       /\ ret.info = {}
       /\ Returned = Board

C5_Witness ==
    /\ LegalCall
    /\ Count(pre.board, 0) = 1
    /\ Count(Board, 0) = 0
    /\ ~ThreeInRow(Board, 1)
    /\ ~ThreeInRow(Board, 2)
    /\ ret.reward = 0
    /\ ret.terminal = TRUE

\* C6: a legal step in which the opponent's reply gives PlayerB three in a
\* row returns terminal and reward -1 without invalid_move, and a step
\* returns reward -1 without invalid_move only with PlayerB three in a row
\* on the returned board
C6_OpponentLineLoses ==
    /\ (LegalCall /\ ThreeInRow(Board, 2))
        => /\ ret.raised = "none"
           /\ ret.terminal = TRUE
           /\ ret.reward = 0 - 1
           /\ ret.info = {}
    /\ (op = "step" /\ ret.raised = "none" /\ ret.reward = 0 - 1 /\ ret.info = {})
        => ThreeInRow(Returned, 2)

C6_Witness ==
    /\ LegalCall
    /\ ~ThreeInRow(pre.board, 2)
    /\ \E j \in 0..2 : \A i \in 0..2 : Board[<<i, j>>] = 2
    /\ ret.reward = 0 - 1
    /\ ret.info = {}

\* C7: the step right after a reset, for every action 0..8, is not illegal
\* and returns reward 0, not terminal, and a board with PlayerA at the action
\* cell, one PlayerB mark elsewhere and 7 empty cells
C7_FirstStepAfterReset ==
    (op = "step" /\ pre.op = "reset" /\ act \in 0..8)
    => /\ ret.raised = "none"
       /\ ret.line # 40
       /\ ret.info = {}
       /\ ret.reward = 0
       /\ ret.terminal = FALSE
       /\ Returned[CellOf(act)] = 1
       /\ Count(Returned, 1) = 1
       /\ Count(Returned, 2) = 1
       /\ Count(Returned, 0) = 7

C7_Witness ==
    /\ op = "step" /\ pre.op = "reset" /\ act = 0
    /\ Returned[<<0, 0>>] = 1
    /\ Returned[<<2, 2>>] = 2
    /\ ret.terminal = FALSE

\* C8: reset leaves, from any state, all 9 cells empty, the turn at PlayerA
\* and the episode running, and returns the empty board and an empty info;
\* the state after construction is the same
C8_ResetRestoresInitial ==
    (op \in {"reset", "init"})
    => /\ \A c \in Cells : Board[c] = 0
       /\ current_player = 1
       /\ done = FALSE
       /\ (op = "reset" =>
             /\ \A c \in Cells : Returned[c] = 0
             /\ ret.info = {}
             /\ ret.raised = "none")

C8_Witness ==
    /\ op = "reset"
    /\ pre.done
    /\ pre.current_player = 2
    /\ ThreeInRow(pre.board, 2)
    /\ current_player = 1

\* C9: once the episode is terminal, every call but reset leaves it terminal
\* and leaves the board and the turn marker as they were
C9_TerminalAbsorbing ==
    [][done =>
        \/ op' = "reset"
        \/ /\ done'
           /\ Board' = Board
           /\ current_player' = current_player]_vars

C9_Witness ==
    /\ op = "step" /\ pre.done /\ done
    /\ act \in 0..8
    /\ Board[CellOf(act)] = 0
    /\ pre.op = "step"

\* C10: the board a call returns equals the internal board at the return and
\* is a separate array: later calls do not change a board the caller keeps,
\* and a caller's write into it does not change the internal board
C10_SnapshotIsCopy ==
    [][/\ (ncalls' # ncalls /\ ret'.board # NoRef)
            => heap'[ret'.board] = Board'
       /\ (ncalls' # ncalls /\ held # NoRef)
            => (held' = held /\ heap'[held] = heap[held])
       /\ (ncalls' = ncalls)
            => (Board' = Board /\ boardRef' = boardRef)]_vars

C10_Witness ==
    /\ op = "step"
    /\ held # NoRef
    /\ held # ret.board
    /\ \A c \in Cells : heap[held][c] = 2
    /\ Count(Board, 1) = 1
    /\ Count(pre.board, 1) = 0
    /\ Returned = Board

\* C11: the info a step returns holds invalid_move (true) exactly when the
\* call took the illegal-move branch, that is the episode was already
\* terminal or the target cell was occupied; otherwise it is empty
C11_InvalidFlagIffIllegal ==
    (op = "step" /\ ret.raised = "none")
    => /\ (<<"invalid_move", TRUE>> \in ret.info)
            <=> (pre.done \/ (act \in (0 - 9)..8 /\ pre.board[Addressed(act)] # 0))
       /\ ret.info \subseteq {<<"invalid_move", TRUE>>}
       /\ (ret.info # {}) <=> (ret.line = 40)

C11_Witness ==
    /\ op = "step"
    /\ ~pre.done
    /\ act \in 0..8
    /\ pre.board[CellOf(act)] = 1
    /\ ret.info = {<<"invalid_move", TRUE>>}
    /\ pre.op = "step"

\* C12: the reward a step returns is +1 on an agent win, -1 on an agent loss
\* and 0 in every other case, the illegal move included
C12_RewardZeroOnIllegal ==
    (op = "step" /\ ret.raised = "none")
    => ret.reward =
          IF ret.line = 40 THEN 0
          ELSE IF ThreeInRow(Returned, 1) THEN 1
          ELSE IF ThreeInRow(Returned, 2) THEN 0 - 1
          ELSE 0

\* C13: between calls the number of PlayerA marks exceeds the number of
\* PlayerB marks by 0 or 1, and while the episode is running the two numbers
\* are equal
C13_MarkCounts ==
    /\ Count(Board, 1) - Count(Board, 2) \in {0, 1}
    /\ ~done => Count(Board, 1) = Count(Board, 2)

C13_Witness ==
    /\ op = "step"
    /\ ~done
    /\ Count(pre.board, 1) = 2
    /\ Count(Board, 1) = 3
    /\ Count(Board, 2) = 3

\* C14: a legal step that fills the ninth cell and completes a PlayerA line
\* returns reward +1 and terminal, and a step returns reward 0 with terminal
\* only with the board full and no PlayerA line
C14_WinBeforeDraw ==
    /\ (LegalCall /\ Count(Board, 0) = 0 /\ ThreeInRow(Board, 1))
        => /\ ret.raised = "none"
           /\ ret.reward = 1
           /\ ret.terminal = TRUE
    /\ (op = "step" /\ ret.raised = "none" /\ ret.terminal /\ ret.reward = 0)
        => /\ Count(Returned, 0) = 0
           /\ ~ThreeInRow(Returned, 1)

C14_Witness ==
    /\ LegalCall
    /\ Count(pre.board, 0) = 1
    /\ Count(Board, 0) = 0
    /\ ThreeInRow(Board, 1)
    /\ ~ThreeInRow(pre.board, 1)
    /\ ret.reward = 1
    /\ ret.line = 49

\* C15: the mark a legal step writes at the action cell is PlayerA's; the
\* turn marker is PlayerA whenever the episode is running, and it is PlayerB
\* only in terminal states entered by a return from the opponent's reply
C15_AgentMarkIsPlayerA ==
    /\ LegalCall => (pre.current_player = 1 /\ Board[Addressed(act)] = 1)
    /\ ~done => current_player = 1
    /\ current_player = 2
        => /\ done
           /\ op = "step"
           /\ \/ ret.line \in {68, 72}
              \/ (ret.line = 40 /\ pre.done /\ pre.current_player = 2)

C15_Witness ==
    /\ LegalCall
    /\ Board[Addressed(act)] = 1
    /\ current_player = 2
    /\ done
    /\ ret.line = 68
    /\ ThreeInRow(Board, 2)
    /\ pre.op = "step"

\* C16: step never overwrites or clears a mark: a legal step that returns
\* not terminal changes the action cell from Empty to PlayerA and one other
\* cell from Empty to PlayerB and nothing else, any legal step changes at
\* most those two cells, and no step makes a cell Empty
C16_StepOnlyFillsEmptyCells ==
    /\ (LegalCall /\ ret.terminal = FALSE)
        => \E c \in Cells \ {Addressed(act)} :
              /\ pre.board[c] = 0
              /\ Board = [pre.board EXCEPT ![Addressed(act)] = 1, ![c] = 2]
    /\ LegalCall
        => \/ Board = [pre.board EXCEPT ![Addressed(act)] = 1]
           \/ \E c \in Cells \ {Addressed(act)} :
                 /\ pre.board[c] = 0
                 /\ Board = [pre.board EXCEPT ![Addressed(act)] = 1, ![c] = 2]
    /\ op = "step"
        => \A c \in Cells : pre.board[c] # 0 => Board[c] = pre.board[c]

C16_Witness ==
    /\ LegalCall
    /\ ret.terminal = FALSE
    /\ Count(pre.board, 0) = 5
    /\ Count(Board, 0) = 3
    /\ Board[Addressed(act)] = 1

\* C17: a terminal episode has a line of one player, or a full board, or its
\* last step took the illegal-move branch; and truncated is false in every
\* tuple step returns
C17_TerminalOnlyByOutcomeOrIllegal ==
    /\ done
        => \/ ThreeInRow(Board, 1)
           \/ ThreeInRow(Board, 2)
           \/ Count(Board, 0) = 0
           \/ (op = "step" /\ ret.line = 40
                 /\ <<"invalid_move", TRUE>> \in ret.info)
    /\ (op = "step" /\ ret.raised = "none") => ret.truncated = FALSE

C17_Witness ==
    /\ done
    /\ ~ThreeInRow(Board, 1)
    /\ ~ThreeInRow(Board, 2)
    /\ Count(Board, 0) = 5
    /\ ret.line = 40
    /\ ~pre.done
    /\ ret.truncated = FALSE

\* C18: while the episode is running neither player has three in a row and
\* some cell is Empty, and the two players never both have three in a row
C18_NoFinishedGameActive ==
    /\ ~done
        => /\ ~ThreeInRow(Board, 1)
           /\ ~ThreeInRow(Board, 2)
           /\ Count(Board, 0) >= 1
    /\ ~(ThreeInRow(Board, 1) /\ ThreeInRow(Board, 2))

C18_Witness ==
    /\ ~done
    /\ op = "step"
    /\ Count(Board, 0) = 1
    /\ Count(Board, 1) = 4

\* C19: the opponent's reply always finds an Empty cell and never fills the
\* board, so the return at line 72 is never taken and every draw is returned
\* by the agent's own move at line 53
C19_DrawOnlyOnAgentMove ==
    /\ ret.line # 72
    /\ (LegalCall /\ ret.line \in {68, 72, 76})
        => /\ Count(pre.board, 0) >= 2
           /\ Count(Board, 2) = Count(pre.board, 2) + 1
           /\ Count(Board, 0) >= 1
    /\ (op = "step" /\ ret.raised = "none" /\ ret.terminal /\ ret.reward = 0)
        => ret.line = 53

C19_Witness ==
    /\ LegalCall
    /\ ret.line = 76
    /\ Count(pre.board, 0) = 3
    /\ Count(Board, 0) = 1
    /\ Count(Board, 2) = 4

\* C20: counting from a reset, at most 4 step calls return not terminal, and
\* the fifth step call that returns, and every later one, returns terminal
C20_EpisodeLength ==
    (op = "step" /\ ret.raised = "none")
    => /\ ret.terminal = FALSE => ncalls <= 4
       /\ ncalls >= 5 => (ret.terminal = TRUE /\ done)

C20_Witness ==
    /\ LegalCall
    /\ ncalls = 5
    /\ Count(pre.board, 0) = 1
    /\ ret.terminal = TRUE
    /\ ret.line \in {49, 53}

====
